---- MODULE Spec2Model ----
(***************************************************************************)
(* Request handlers of the Aibets server variants: each accepts a request, *)
(* fetches data from an upstream API (Deriv WebSocket, football REST API), *)
(* builds a prompt, calls an LLM endpoint and relays the reply.            *)
(*                                                                         *)
(* The variable `variant` selects which server program is running:         *)
(*   "p006"  live-candle server           (src/unnamed/part_006)           *)
(*   "p003"  multi-timeframe analysis     (src/unnamed/part_003)           *)
(*   "p005"  its earlier copy             (src/unnamed/part_005, 96-349)   *)
(*   "p004", "p008"  GET /assets, POST /analyze (part_004, part_008)       *)
(*   "p005p" POST /api/predict            (src/unnamed/part_005, 1-93)     *)
(*   "sjs1"  football analysis            (src/server.js, 1-250)           *)
(*   "p001"  football analysis            (src/unnamed/part_001)           *)
(*   "p002"  asset list and asset analysis (src/unnamed/part_002)          *)
(* Every action is one handler or callback of that program, run to its     *)
(* next await.  Continuations of a promise the callback settles run in the *)
(* same action (they are microtasks, run before the next I/O event).       *)
(***************************************************************************)
EXTENDS Integers, Sequences, FiniteSets, TLC

\* ---- bounds -------------------------------------------------------------
MaxMsgs == 4       \* messages the upstream sends while the server runs
MaxNew == 1        \* candles that open on a stream after its history
MaxRefresh == 2    \* runs of fetchAssets (server start, hourly refresh)

\* ---- program constants --------------------------------------------------
MinCandles == 50       \* part_006: liveCandles.length < 50
MaxCandles == 200      \* part_006: liveCandles.length > 200
NormalClosure == 1000  \* part_003: code !== 1000
AbnormalClosure == 1006  \* a close code for which code !== 1000 is true

\* the requests in flight: two requests A and B of a variant that keeps
\* module-level state, one request of the others
Req == {1, 2}
Variants == {"p006", "p003", "p005", "p004", "p008", "p005p", "sjs1", "p001",
             "p002"}
SharedVariants == {"p006", "p002"}

\* ---- inputs -------------------------------------------------------------
Missing == ""
\* a timeframe string such as '1m' is <<value, unit>>
Bodies006 ==
  { [asset |-> "R_100", timeframe |-> <<1, "m">>],
    [asset |-> "frxEURUSD", timeframe |-> <<1, "H">>] }
\* epoch of the newest closed candle when the server starts
Now == MaxCandles
HistLens == {49, 200} \* candles carried by a history message

\* ---- reply text of the LLM ----------------------------------------------
\* A text is a sequence of tokens: "W" whitespace, "J" the fence ```json,
\* "F" the fence ```, "L" and "R" the braces of an object, "A" the member
\* named `analysis`, "S" any other member of the object, "T" prose.  Inside an object "F" and "J" are fences that
\* occur within a string value.
Replies ==
  { <<>>,
    <<"L", "S", "R">>,
    <<"L", "A", "S", "R">>,
    <<"W", "L", "S", "R", "W">>,
    <<"J", "L", "S", "R", "F">>,
    <<"T", "L", "S", "R", "T">>,
    <<"L", "S", "R", "L", "S", "R">>,
    <<"R", "L">>,
    <<"T">> }

LlmOutcomes ==
  { [kind |-> k, text |-> <<>>] : k \in {"neterr", "notok", "nocand"} }
    \cup { [kind |-> "text", text |-> t] : t \in Replies }

\* how the call ended: the remote side failed, it replied without a text
\* the handler can parse, or it replied
LlmEnd(o, parses) ==
  IF o.kind \in {"neterr", "notok"} THEN "failed"
  ELSE IF o.kind = "nocand" \/ ~parses THEN "garbled"
  ELSE "replied"

SetMin(S) == CHOOSE x \in S : \A y \in S : x <= y
SetMax(S) == CHOOSE x \in S : \A y \in S : x >= y

\* String.prototype.trim
Trim(t) ==
  LET idx == { i \in 1..Len(t) : t[i] # "W" }
  IN  IF idx = {} THEN <<>> ELSE SubSeq(t, SetMin(idx), SetMax(idx))

IsInner(x) == x \in {"A", "S", "F", "J", "W"}
NotW(x) == x # "W"

\* JSON.parse: surrounding whitespace is accepted, the value of an object
\* is the sequence of its members; anything else throws.
JsonParse(t) ==
  LET tr == Trim(t)
      n  == Len(tr)
  IN  IF /\ n >= 2
         /\ tr[1] = "L"
         /\ tr[n] = "R"
         /\ \A i \in 2..(n - 1) : IsInner(tr[i])
      THEN [ok |-> TRUE, val |-> SelectSeq(SubSeq(tr, 2, n - 1), NotW)]
      ELSE [ok |-> FALSE, val |-> <<>>]

\* part_006: responseText.substring(indexOf('{'), lastIndexOf('}') + 1);
\* substring swaps its arguments when the first is the larger.
BraceSlice(t) ==
  LET ls == { i \in 1..Len(t) : t[i] = "L" }
      rs == { i \in 1..Len(t) : t[i] = "R" }
  IN  IF ls = {} \/ rs = {} THEN [ok |-> FALSE, text |-> <<>>]
      ELSE LET s == SetMin(ls)
               e == SetMax(rs)
           IN  [ok |-> TRUE,
                text |-> IF s <= e THEN SubSeq(t, s, e)
                         ELSE SubSeq(t, e + 1, s - 1)]

\* ---- responses ----------------------------------------------------------
ErrorBody == [tag |-> "error", val |-> <<>>, extra |-> <<>>]
Response(status, body) == [status |-> status, body |-> body]
Err(status) == Response(status, ErrorBody)
\* res.json(value): the body is the value itself
Relay(val) == Response(200, [tag |-> "json", val |-> val, extra |-> <<>>])

\* ---- sockets ------------------------------------------------------------
NoSock == [st |-> "none", flag |-> FALSE, hist |-> FALSE, ep |-> Now]
NewSock == [NoSock EXCEPT !.st = "connecting"]

\* WebSocket.close() called by the server
wsClose(s) ==
  CASE s.st = "open"       -> [s EXCEPT !.st = "closing"]
    [] s.st = "connecting" -> [s EXCEPT !.st = "aborted"]
    [] OTHER               -> s

NoLlm == [st |-> "none", timer |-> "none"]

\* A fetch of the request of a server without module-level state: the
\* socket it opened (st), its isResolvedOrRejected flag, the state of the
\* promise it returned and the number of candles it resolved with.
\* Slot 0 is the first fetch of the handler, slot k the fetch for the k-th
\* requested timeframe.
Slot == 0..2
NoFetch == [st |-> "none", flag |-> FALSE, prom |-> "none", data |-> 0]
NewFetch == [st |-> "connecting", flag |-> FALSE, prom |-> "pending",
             data |-> 0]
\* resolve(n) / reject(): a settled promise stays as it is
Resolve(f, n) ==
  IF f.prom = "pending" THEN [f EXCEPT !.prom = "resolved", !.data = n] ELSE f
Reject(f) ==
  IF f.prom = "pending" THEN [f EXCEPT !.prom = "rejected"] ELSE f

\* events of a socket: what the upstream and the network can make happen
CanOpen(f) == f.st = "connecting"
CanMessage(f) == f.st \in {"open", "closing"}
CanError(f) == f.st \in {"connecting", "open", "closing", "aborted"}
CanClose(f, code) ==
  \/ f.st \in {"open", "closing"} /\ code \in {NormalClosure, AbnormalClosure}
  \/ f.st = "errored" /\ code = AbnormalClosure

VARIABLES
  variant,          \* the server program that is running
  pc,               \* [Req -> position of the request handler]
  inp,              \* [Req -> request body]
  out,              \* [Req -> sequence of responses sent for the request]
  sk,               \* [Req -> socket opened for the request]
  llm,              \* [Req -> state of the LLM call]
  issued,           \* [Req -> sequence of outbound calls issued]
  prompt,           \* [Req -> sockets whose candles are in the prompt]
  liveCandles,      \* part_006 module variable
  ws,               \* part_006 module variable: request whose socket it is
  currentAsset,     \* part_006 module variable
  currentInterval,  \* part_006 module variable
  msgs,             \* messages the upstream has sent
  fetch,            \* [Slot -> socket and promise of an upstream fetch]
  foot,             \* football handlers: the call awaited, a call failed
  availableAssets,  \* part_002 module variable
  refreshes,        \* part_002: runs of fetchAssets so far
  relay             \* an LLM outcome and the response the handler makes of it

vars == <<variant, pc, inp, out, sk, llm, issued, prompt,
          liveCandles, ws, currentAsset, currentInterval, msgs, fetch,
          foot, availableAssets, refreshes, relay>>
globals006 == <<liveCandles, ws, currentAsset, currentInterval>>
\* what the live-candle server leaves alone
only1 == <<fetch, foot, availableAssets, refreshes>>
\* what the servers without module-level state leave alone
only006 == <<sk, globals006>>
\* what the servers that fetch over sockets leave alone
onlyRest == <<foot, availableAssets, refreshes>>

\* the fields of a request body that a handler reads
NoResponse == Response(0, [tag |-> "none", val |-> <<>>, extra |-> <<>>])
NoRelay == [o |-> [kind |-> "none", text |-> <<>>], resp |-> NoResponse]

NoInput == [path |-> "", asset |-> Missing, timeframe |-> <<>>,
            timeframes |-> <<>>]

Start ==
  /\ pc = [r \in Req |-> "idle"]
  /\ inp = [r \in Req |-> NoInput]
  /\ out = [r \in Req |-> <<>>]
  /\ sk = [r \in Req |-> NoSock]
  /\ llm = [r \in Req |-> NoLlm]
  /\ issued = [r \in Req |-> <<>>]
  /\ prompt = [r \in Req |-> <<>>]
  /\ liveCandles = <<>>
  /\ ws = 0
  /\ currentAsset = ""
  /\ currentInterval = 60
  /\ msgs = 0
  /\ fetch = [k \in Slot |-> NoFetch]
  /\ foot = [step |-> 0, failed |-> FALSE]
  /\ availableAssets = <<>>
  /\ refreshes = 0

Init ==
  /\ variant \in Variants
  /\ Start
  /\ relay = NoRelay

\* requests the running variant handles at the same time
Active == IF variant \in SharedVariants THEN Req ELSE {1}
\* requests are numbered in the order they arrive
Arrives(r) == pc[r] = "idle" /\ \A q \in Req : q < r => pc[q] # "idle"

\* ==== part_006: live-candle server ======================================

ToLower(u) == IF u = "H" THEN "h" ELSE IF u = "M" THEN "m" ELSE u

getTimeframeInSeconds(timeframe) ==
  LET unit  == ToLower(timeframe[2])
      value == timeframe[1]
  IN  CASE unit = "m" -> value * 60
        [] unit = "h" -> value * 3600
        [] unit = "d" -> value * 24 * 3600
        [] OTHER      -> 60

\* the module variables after connectToDeriv(asset, interval) for request r
connectToDeriv(r, asset, interval) ==
  /\ sk' = [q \in Req |->
              IF q = r THEN NewSock
              ELSE IF q = ws THEN wsClose(sk[q])
              ELSE sk[q]]
  /\ liveCandles' = <<>>
  /\ currentAsset' = asset
  /\ currentInterval' = interval
  /\ ws' = r

Analyze006(r, body) ==
  /\ variant = "p006"
  /\ Arrives(r)
  /\ body.asset # Missing /\ body.timeframe # <<>>
  /\ inp' = [inp EXCEPT ![r] = body @@ NoInput]
  /\ connectToDeriv(r, body.asset, getTimeframeInSeconds(body.timeframe))
  /\ issued' = [issued EXCEPT ![r] =
       Append(@, <<"ticks_history", body.asset,
                   getTimeframeInSeconds(body.timeframe)>>)]
  /\ pc' = [pc EXCEPT ![r] = "wait"]
  /\ UNCHANGED <<variant, relay, only1, out, llm, prompt, msgs>>

\* ws.onopen
OnOpen006(r) ==
  /\ variant = "p006"
  /\ CanOpen(sk[r])
  /\ sk' = [sk EXCEPT ![r].st = "open"]
  /\ UNCHANGED <<variant, relay, only1, pc, inp, out, llm, issued, prompt, globals006, msgs>>

HistoryCandles(r, n) ==
  [i \in 1..n |-> [epoch |-> Now - n + i, src |-> r]]

\* variant: the candle is added and none is dropped
PushCandle_NoShift(candles, c) ==
  IF Len(candles) > 0 /\ candles[Len(candles)].epoch = c.epoch
  THEN [candles EXCEPT ![Len(candles)] = c]
  ELSE Append(candles, c)

\* liveCandles after the `data.candles` branch of ws.onmessage
PushCandle(candles, c) ==
  IF Len(candles) > 0 /\ candles[Len(candles)].epoch = c.epoch
  THEN [candles EXCEPT ![Len(candles)] = c]
  ELSE LET pushed == Append(candles, c)
       IN  IF Len(pushed) > MaxCandles THEN Tail(pushed) ELSE pushed

CanReceive(s) == CanMessage(s) /\ msgs < MaxMsgs

\* ws.onmessage with the history message of n candles that answers the
\* ticks_history request
OnHistory006(r, n) ==
  /\ variant = "p006"
  /\ CanReceive(sk[r])
  /\ ~sk[r].hist
  /\ msgs' = msgs + 1
  /\ sk' = [sk EXCEPT ![r].hist = TRUE]
  /\ liveCandles' = HistoryCandles(r, n)
  /\ UNCHANGED <<variant, relay, only1, pc, inp, out, llm, issued, prompt,
                 ws, currentAsset, currentInterval>>

\* ws.onmessage with a candles message for epoch e: the candle that is
\* forming is sent again, or the next one
OnCandle006(r, e) ==
  /\ variant = "p006"
  /\ CanReceive(sk[r])
  /\ sk[r].hist
  /\ e \in {sk[r].ep, sk[r].ep + 1}
  /\ e <= Now + MaxNew
  /\ msgs' = msgs + 1
  /\ sk' = [sk EXCEPT ![r].ep = e]
  /\ liveCandles' = PushCandle(liveCandles, [epoch |-> e, src |-> r])
  /\ UNCHANGED <<variant, relay, only1, pc, inp, out, llm, issued, prompt,
                 ws, currentAsset, currentInterval>>

\* ws.onerror: logs
OnError006(r) ==
  /\ variant = "p006"
  /\ CanError(sk[r])
  /\ sk' = [sk EXCEPT ![r].st = "errored"]
  /\ UNCHANGED <<variant, relay, only1, pc, inp, out, llm, issued, prompt, globals006, msgs>>

\* ws.onclose: logs
OnClose006(r) ==
  /\ variant = "p006"
  /\ \E code \in {NormalClosure, AbnormalClosure} : CanClose(sk[r], code)
  /\ sk' = [sk EXCEPT ![r].st = "closed"]
  /\ UNCHANGED <<variant, relay, only1, pc, inp, out, llm, issued, prompt, globals006, msgs>>

\* the requests whose sockets delivered the candles
Sources(candles) == { candles[i].src : i \in 1..Len(candles) }

\* the 5-second wait of the handler is over
Timer006(r) ==
  /\ variant = "p006"
  /\ pc[r] = "wait"
  /\ IF Len(liveCandles) < MinCandles
     THEN /\ out' = [out EXCEPT ![r] = Append(@, Err(500))]
          /\ pc' = [pc EXCEPT ![r] = "done"]
          /\ UNCHANGED <<llm, issued, prompt>>
     ELSE /\ prompt' = [prompt EXCEPT ![r] = Sources(liveCandles)]
          /\ llm' = [llm EXCEPT ![r].st = "pending"]
          /\ issued' = [issued EXCEPT ![r] = Append(@, <<"llm">>)]
          /\ pc' = [pc EXCEPT ![r] = "llm"]
          /\ out' = out
  /\ UNCHANGED <<variant, relay, only1, inp, sk, globals006, msgs>>

\* the response the handler sends for an LLM outcome
Reply006(o) ==
  IF o.kind # "text" \/ o.text = <<>> THEN Err(500)
  ELSE LET sl == BraceSlice(o.text)
       IN  IF ~sl.ok THEN Err(500)
           ELSE IF JsonParse(sl.text).ok THEN Relay(JsonParse(sl.text).val)
           ELSE Err(500)

\* JSON.parse(jsonString) of the handler does not throw
Parses006(t) == BraceSlice(t).ok /\ JsonParse(BraceSlice(t).text).ok

LlmReply006(r, o) ==
  /\ variant = "p006"
  /\ pc[r] = "llm"
  /\ llm' = [llm EXCEPT ![r].st = LlmEnd(o, Parses006(o.text))]
  /\ out' = [out EXCEPT ![r] = Append(@, Reply006(o))]
  /\ pc' = [pc EXCEPT ![r] = "done"]
  /\ UNCHANGED <<variant, relay, only1, inp, sk, issued, prompt, globals006, msgs>>

Next006 ==
  \/ \E r \in Active, b \in Bodies006 : Analyze006(r, b)
  \/ \E r \in Active : OnOpen006(r)
  \/ \E r \in Active, n \in HistLens : OnHistory006(r, n)
  \/ \E r \in Active, e \in Now..(Now + MaxNew) : OnCandle006(r, e)
  \/ \E r \in Active : OnError006(r)
  \/ \E r \in Active : OnClose006(r)
  \/ \E r \in Active : Timer006(r)
  \/ \E r \in Active, o \in LlmOutcomes : LlmReply006(r, o)

\* ==== part_003 and part_005: multi-timeframe analysis ====================
\* POST /analyze of part_003, and its earlier copy in part_005 ("p005"),
\* whose socket callbacks have no isResolvedOrRejected flag and no close
\* handling.  The single request of the variant is request 1.
MultiTf == {"p003", "p005"}

Bodies003 ==
  { [asset |-> "EUR/USD", timeframes |-> <<"1m">>],
    [asset |-> "EUR/USD", timeframes |-> <<"5m", "1m">>] }
CandleCounts == {0, 1}   \* candles carried by a candles_history message

TIME_FRAME_MAP ==
  [tf \in {"1m", "5m", "15m", "30m", "1h", "4h", "1d", "1w"} |->
     CASE tf = "1m" -> 60 [] tf = "5m" -> 300 [] tf = "15m" -> 900
       [] tf = "30m" -> 1800 [] tf = "1h" -> 3600 [] tf = "4h" -> 14400
       [] tf = "1d" -> 86400 [] tf = "1w" -> 604800]

\* `frx${asset.replace('/', '').toUpperCase()}`
derivSymbol(asset) ==
  CASE asset = "EUR/USD" -> "frxEURUSD"
    [] OTHER -> "frx"

Tfs == inp[1].timeframes
OhlcSlots == 1..Len(Tfs)

\* variant: every fetched item is kept, whatever became of its fetch
Worked_Unfiltered(ft, n) == [k \in 1..n |-> k]

\* dataForGemini: the indices of the items that pass the filter
\* item.data.length > 0, in request order
Worked(ft, n) ==
  SelectSeq([k \in 1..n |-> k],
            LAMBDA k : ft[k].prom = "resolved" /\ ft[k].data > 0)
WorkedTfs(ft, tfs) ==
  [i \in 1..Len(Worked(ft, Len(tfs))) |-> tfs[Worked(ft, Len(tfs))[i]]]

\* variant: the handler does not test that dataForGemini is empty
Resume003_NoCheck(ft, okTfs) ==
  IF pc[1] = "price" /\ ft[0].prom = "rejected"
  THEN /\ out' = [out EXCEPT ![1] = Append(@, Err(500))]
       /\ pc' = [pc EXCEPT ![1] = "done"]
       /\ fetch' = ft
       /\ UNCHANGED <<llm, issued, prompt>>
  ELSE IF pc[1] = "price" /\ ft[0].prom = "resolved"
  THEN /\ fetch' = [k \in Slot |-> IF k \in OhlcSlots THEN NewFetch ELSE ft[k]]
       /\ issued' = [issued EXCEPT ![1] = @ \o
            [k \in OhlcSlots |->
               <<"candles_history", derivSymbol(inp[1].asset),
                 TIME_FRAME_MAP[Tfs[k]]>>]]
       /\ pc' = [pc EXCEPT ![1] = "ohlc"]
       /\ UNCHANGED <<out, llm, prompt>>
  ELSE IF pc[1] = "ohlc" /\ \A k \in OhlcSlots : ft[k].prom # "pending"
  THEN /\ fetch' = ft
       /\ prompt' = [prompt EXCEPT ![1] = okTfs]
       /\ llm' = [llm EXCEPT ![1].st = "pending"]
       /\ issued' = [issued EXCEPT ![1] = Append(@, <<"llm">>)]
       /\ pc' = [pc EXCEPT ![1] = "llm"]
       /\ out' = out
  ELSE /\ fetch' = ft
       /\ UNCHANGED <<pc, out, llm, issued, prompt>>

\* the rest of the handler of POST /analyze once the fetch table is ft:
\* it resumes when the promise it awaits has settled
Resume003(ft, okTfs) ==
  IF pc[1] = "price" /\ ft[0].prom = "rejected"
  THEN /\ out' = [out EXCEPT ![1] = Append(@, Err(500))]
       /\ pc' = [pc EXCEPT ![1] = "done"]
       /\ fetch' = ft
       /\ UNCHANGED <<llm, issued, prompt>>
  ELSE IF pc[1] = "price" /\ ft[0].prom = "resolved"
  THEN /\ fetch' = [k \in Slot |-> IF k \in OhlcSlots THEN NewFetch ELSE ft[k]]
       /\ issued' = [issued EXCEPT ![1] = @ \o
            [k \in OhlcSlots |->
               <<"candles_history", derivSymbol(inp[1].asset),
                 TIME_FRAME_MAP[Tfs[k]]>>]]
       /\ pc' = [pc EXCEPT ![1] = "ohlc"]
       /\ UNCHANGED <<out, llm, prompt>>
  ELSE IF pc[1] = "ohlc" /\ \A k \in OhlcSlots : ft[k].prom # "pending"
  THEN /\ fetch' = ft
       /\ IF okTfs = <<>>
          THEN /\ out' = [out EXCEPT ![1] = Append(@, Err(500))]
               /\ pc' = [pc EXCEPT ![1] = "done"]
               /\ UNCHANGED <<llm, issued, prompt>>
          ELSE /\ prompt' = [prompt EXCEPT ![1] = okTfs]
               /\ llm' = [llm EXCEPT ![1].st = "pending"]
               /\ issued' = [issued EXCEPT ![1] = Append(@, <<"llm">>)]
               /\ pc' = [pc EXCEPT ![1] = "llm"]
               /\ out' = out
  ELSE /\ fetch' = ft
       /\ UNCHANGED <<pc, out, llm, issued, prompt>>

\* the handlers that fetchCurrentPrice and fetchOHLCData of part_003
\* register on their socket; f is the fetch when the event is delivered
OnMessage003(f, m, n, isOhlc) ==
  IF m = "error"
  THEN IF ~f.flag THEN Reject(wsClose([f EXCEPT !.flag = TRUE])) ELSE f
  ELSE IF m = "match"
  THEN IF ~f.flag
       THEN IF isOhlc /\ n = 0
            THEN Reject(wsClose([f EXCEPT !.flag = TRUE]))
            ELSE Resolve(wsClose([f EXCEPT !.flag = TRUE]), n)
       ELSE f
  ELSE f

OnError003(f) ==
  IF ~f.flag THEN Reject(wsClose([f EXCEPT !.flag = TRUE])) ELSE f

OnClose003(f, code) ==
  IF ~f.flag /\ code # NormalClosure
  THEN Reject([f EXCEPT !.flag = TRUE])
  ELSE f

\* variant: the callback closes the socket on every message
OnMessage005_CloseAny(f, m, n) ==
  IF m = "error" THEN Reject(wsClose(f))
  ELSE IF m = "match" THEN Resolve(wsClose(f), n)
  ELSE wsClose(f)

\* the callbacks of the earlier copy in part_005
OnMessage005(f, m, n) ==
  IF m = "error" THEN Reject(wsClose(f))
  ELSE IF m = "match" THEN Resolve(wsClose(f), n)
  ELSE f

OnError005(f) == Reject(f)

OnClose005(f) == f

OnMessage(f, m, n, isOhlc) ==
  IF variant = "p003" THEN OnMessage003(f, m, n, isOhlc)
  ELSE OnMessage005(f, m, n)
OnError(f) == IF variant = "p003" THEN OnError003(f) ELSE OnError005(f)
OnClose(f, code) ==
  IF variant = "p003" THEN OnClose003(f, code) ELSE OnClose005(f)

With(k, f) == [fetch EXCEPT ![k] = f]

\* variant: the OHLC sockets are opened together with the price socket
Analyze003_Concurrent(body) ==
  /\ variant \in MultiTf
  /\ pc[1] = "idle"
  /\ body.asset # Missing /\ body.timeframes # <<>>
  /\ inp' = [inp EXCEPT ![1] = body @@ NoInput]
  /\ fetch' = [k \in Slot |->
                 IF k <= Len(body.timeframes) THEN NewFetch ELSE NoFetch]
  /\ issued' = [issued EXCEPT ![1] =
       Append(@, <<"ticks", derivSymbol(body.asset)>>)]
  /\ pc' = [pc EXCEPT ![1] = "price"]
  /\ UNCHANGED <<variant, relay, only006, onlyRest, out, llm, prompt, msgs>>

Analyze003(body) ==
  /\ variant \in MultiTf
  /\ pc[1] = "idle"
  /\ body.asset # Missing /\ body.timeframes # <<>>
  /\ inp' = [inp EXCEPT ![1] = body @@ NoInput]
  /\ fetch' = With(0, NewFetch)
  /\ issued' = [issued EXCEPT ![1] =
       Append(@, <<"ticks", derivSymbol(body.asset)>>)]
  /\ pc' = [pc EXCEPT ![1] = "price"]
  /\ UNCHANGED <<variant, relay, only006, onlyRest, out, llm, prompt, msgs>>

\* ws.on('open') of either fetch: the request is sent
Open003(k) ==
  /\ variant \in MultiTf
  /\ CanOpen(fetch[k])
  /\ fetch' = With(k, [fetch[k] EXCEPT !.st = "open"])
  /\ UNCHANGED <<variant, relay, only006, onlyRest, pc, inp, out, llm, issued, prompt, msgs>>

\* ws.on('message') of fetchCurrentPrice
PriceMessage003(m) ==
  /\ variant \in MultiTf
  /\ CanMessage(fetch[0]) /\ msgs < MaxMsgs
  /\ msgs' = msgs + 1
  /\ LET ft == With(0, OnMessage(fetch[0], m, 1, FALSE))
     IN  Resume003(ft, WorkedTfs(ft, Tfs))
  /\ UNCHANGED <<variant, relay, only006, onlyRest, inp>>

\* ws.on('message') of fetchOHLCData
OhlcMessage003(k, m, n) ==
  /\ variant \in MultiTf
  /\ k \in OhlcSlots
  /\ CanMessage(fetch[k]) /\ msgs < MaxMsgs
  /\ msgs' = msgs + 1
  /\ LET ft == With(k, OnMessage(fetch[k], m, n, TRUE))
     IN  Resume003(ft, WorkedTfs(ft, Tfs))
  /\ UNCHANGED <<variant, relay, only006, onlyRest, inp>>

\* ws.on('error') of either fetch
Error003(k) ==
  /\ variant \in MultiTf
  /\ CanError(fetch[k])
  /\ LET ft == With(k, OnError([fetch[k] EXCEPT !.st = "errored"]))
     IN  Resume003(ft, WorkedTfs(ft, Tfs))
  /\ UNCHANGED <<variant, relay, only006, onlyRest, inp, msgs>>

\* ws.on('close') of either fetch
Close003(k, code) ==
  /\ variant \in MultiTf
  /\ CanClose(fetch[k], code)
  /\ LET ft == With(k, OnClose([fetch[k] EXCEPT !.st = "closed"], code))
     IN  Resume003(ft, WorkedTfs(ft, Tfs))
  /\ UNCHANGED <<variant, relay, only006, onlyRest, inp, msgs>>

\* res.json({asset, timeframes, currentPrice, analysis, timestamp})
Wrapped(val, tfs) ==
  Response(200, [tag |-> "analysis", val |-> val, extra |-> tfs])

\* variant: the parse failure is not caught
Reply003_NoCatch(o, tfs) ==
  IF o.kind # "text" THEN Err(500)
  ELSE Wrapped(JsonParse(Trim(o.text)).val, tfs)

Reply003(o, tfs) ==
  IF o.kind # "text" THEN Err(500)
  ELSE IF JsonParse(Trim(o.text)).ok
  THEN Wrapped(JsonParse(Trim(o.text)).val, tfs)
  ELSE Err(500)

\* variant: the answer names the timeframes that were requested
ReplyTimeframes_Requested == Tfs

\* part_003 answers with the timeframes that worked, part_005 with the
\* timeframes that were requested
ReplyTimeframes == IF variant = "p003" THEN prompt[1] ELSE Tfs

LlmReply003(o) ==
  /\ variant \in MultiTf
  /\ pc[1] = "llm"
  /\ llm' = [llm EXCEPT ![1].st = LlmEnd(o, JsonParse(Trim(o.text)).ok)]
  /\ out' = [out EXCEPT ![1] = Append(@, Reply003(o, ReplyTimeframes))]
  /\ pc' = [pc EXCEPT ![1] = "done"]
  /\ UNCHANGED <<variant, relay, only006, onlyRest, inp, issued, prompt, msgs, fetch>>

MessageKinds == {"error", "match", "other"}
CloseCodes == {NormalClosure, AbnormalClosure}

Next003 ==
  \/ \E b \in Bodies003 : Analyze003(b)
  \/ \E k \in Slot : Open003(k)
  \/ \E m \in MessageKinds : PriceMessage003(m)
  \/ \E k \in Slot, m \in MessageKinds, n \in CandleCounts :
       OhlcMessage003(k, m, n)
  \/ \E k \in Slot : Error003(k)
  \/ \E k \in Slot, code \in CloseCodes : Close003(k, code)
  \/ \E o \in LlmOutcomes : LlmReply003(o)

\* ==== part_004 and part_008: GET /assets and POST /analyze ===============
\* part_008 holds the same server code as part_004.
Single == {"p004", "p008"}

Bodies004 ==
  { [path |-> "assets"],
    [path |-> "analyze", asset |-> "R_100", timeframe |-> "1m"],
    [path |-> "analyze", asset |-> "R_100", timeframe |-> "2m"] }

\* granularityMap[timeframe]; 0 stands for undefined
granularityMap(tf) ==
  IF tf \in DOMAIN TIME_FRAME_MAP THEN TIME_FRAME_MAP[tf] ELSE 0

\* res.json / res.status().json invoked for request 1.  A second invocation
\* throws ERR_HTTP_HEADERS_SENT inside the socket callback, which ends the
\* process.
Send004(resp, ft) ==
  /\ out' = [out EXCEPT ![1] = Append(@, resp)]
  /\ IF out[1] = <<>>
     THEN /\ fetch' = ft
          /\ pc' = pc
     ELSE /\ fetch' = [ft EXCEPT ![0].st = "closed"]
          /\ pc' = [pc EXCEPT ![1] = "crashed"]

AssetsBody == [tag |-> "assets", val |-> <<>>, extra |-> <<>>]

GetAssets004(body) ==
  /\ variant \in Single
  /\ pc[1] = "idle"
  /\ body.path = "assets"
  /\ inp' = [inp EXCEPT ![1] = body @@ NoInput]
  /\ fetch' = With(0, [NewFetch EXCEPT !.prom = "none"])
  /\ issued' = [issued EXCEPT ![1] = Append(@, <<"active_symbols">>)]
  /\ pc' = [pc EXCEPT ![1] = "assets"]
  /\ UNCHANGED <<variant, relay, only006, onlyRest, out, llm, prompt, msgs>>

\* ws.onopen of either endpoint: the request is sent
Open004 ==
  /\ variant \in Single
  /\ CanOpen(fetch[0])
  /\ fetch' = With(0, [fetch[0] EXCEPT !.st = "open"])
  /\ UNCHANGED <<variant, relay, only006, onlyRest, pc, inp, out, llm, issued, prompt, msgs>>

\* ws.onmessage of GET /assets
AssetsMessage004(m) ==
  /\ variant \in Single
  /\ pc[1] = "assets"
  /\ CanMessage(fetch[0]) /\ msgs < MaxMsgs
  /\ msgs' = msgs + 1
  /\ IF m = "match"
     THEN Send004(Response(200, AssetsBody), With(0, wsClose(fetch[0])))
     ELSE IF m = "error"
     THEN Send004(Err(500), With(0, wsClose(fetch[0])))
     ELSE UNCHANGED <<out, fetch, pc>>
  /\ UNCHANGED <<variant, relay, only006, onlyRest, inp, llm, issued, prompt>>

\* ws.onerror of GET /assets
AssetsError004 ==
  /\ variant \in Single
  /\ pc[1] = "assets"
  /\ CanError(fetch[0])
  /\ Send004(Err(500), With(0, [fetch[0] EXCEPT !.st = "errored"]))
  /\ UNCHANGED <<variant, relay, only006, onlyRest, inp, llm, issued, prompt, msgs>>

\* the socket closes; neither endpoint registers a close handler
Close004(code) ==
  /\ variant \in Single
  /\ CanClose(fetch[0], code)
  /\ fetch' = With(0, [fetch[0] EXCEPT !.st = "closed"])
  /\ UNCHANGED <<variant, relay, only006, onlyRest, pc, inp, out, llm, issued, prompt, msgs>>

\* variant: the handler goes on to the LLM call without awaiting the fetch
Resume004_NoAwait(ft) ==
  IF pc[1] = "fetch"
  THEN /\ fetch' = ft
       /\ prompt' = [prompt EXCEPT ![1] = <<inp[1].timeframe>>]
       /\ llm' = [llm EXCEPT ![1] = [st |-> "pending", timer |-> "armed"]]
       /\ issued' = [issued EXCEPT ![1] = Append(@, <<"llm">>)]
       /\ pc' = [pc EXCEPT ![1] = "llm"]
       /\ out' = out
  ELSE /\ fetch' = ft
       /\ UNCHANGED <<pc, out, llm, issued, prompt>>

\* the rest of POST /analyze once getHistoricalOHLC has settled:
\* analyzeWithGemini arms its 15-second timer and calls the LLM
Resume004(ft) ==
  IF pc[1] = "fetch" /\ ft[0].prom = "rejected"
  THEN /\ out' = [out EXCEPT ![1] = Append(@, Err(500))]
       /\ pc' = [pc EXCEPT ![1] = "done"]
       /\ fetch' = ft
       /\ UNCHANGED <<llm, issued, prompt>>
  ELSE IF pc[1] = "fetch" /\ ft[0].prom = "resolved"
  THEN /\ fetch' = ft
       /\ prompt' = [prompt EXCEPT ![1] = <<inp[1].timeframe>>]
       /\ llm' = [llm EXCEPT ![1] = [st |-> "pending", timer |-> "armed"]]
       /\ issued' = [issued EXCEPT ![1] = Append(@, <<"llm">>)]
       /\ pc' = [pc EXCEPT ![1] = "llm"]
       /\ out' = out
  ELSE /\ fetch' = ft
       /\ UNCHANGED <<pc, out, llm, issued, prompt>>

Analyze004(body) ==
  /\ variant \in Single
  /\ pc[1] = "idle"
  /\ body.path = "analyze"
  /\ body.asset # Missing /\ body.timeframe # Missing
  /\ inp' = [inp EXCEPT ![1] = body @@ NoInput]
  /\ IF granularityMap(body.timeframe) = 0
     THEN /\ out' = [out EXCEPT ![1] = Append(@, Err(500))]
          /\ pc' = [pc EXCEPT ![1] = "done"]
          /\ UNCHANGED <<fetch, issued>>
     ELSE /\ fetch' = With(0, NewFetch)
          /\ issued' = [issued EXCEPT ![1] =
               Append(@, <<"ticks_history", body.asset,
                           granularityMap(body.timeframe)>>)]
          /\ pc' = [pc EXCEPT ![1] = "fetch"]
          /\ out' = out
  /\ UNCHANGED <<variant, relay, only006, onlyRest, llm, prompt, msgs>>

\* ws.onmessage of getHistoricalOHLC
OhlcMessage004(m, n) ==
  /\ variant \in Single
  /\ pc[1] \notin {"idle", "assets", "crashed"}
  /\ CanMessage(fetch[0]) /\ msgs < MaxMsgs
  /\ msgs' = msgs + 1
  /\ Resume004(With(0, IF m = "match" THEN Resolve(wsClose(fetch[0]), n)
                       ELSE IF m = "error" THEN wsClose(Reject(fetch[0]))
                       ELSE fetch[0]))
  /\ UNCHANGED <<variant, relay, only006, onlyRest, inp>>

\* ws.onerror of getHistoricalOHLC
OhlcError004 ==
  /\ variant \in Single
  /\ pc[1] \notin {"idle", "assets", "crashed"}
  /\ CanError(fetch[0])
  /\ Resume004(With(0, Reject([fetch[0] EXCEPT !.st = "errored"])))
  /\ UNCHANGED <<variant, relay, only006, onlyRest, inp, msgs>>

FallbackBody == [tag |-> "fallback", val |-> <<>>, extra |-> <<>>]

\* what analyzeWithGemini returns, sent as res.json({ analysis }): the
\* parsed reply, the raw text as the `analysis` of a fallback object when it
\* does not parse, a fixed fallback object otherwise
Reply004(o) ==
  IF o.kind # "text" \/ o.text = <<>> THEN Response(200, FallbackBody)
  ELSE IF JsonParse(o.text).ok
  THEN Response(200, [tag |-> "analysis", val |-> JsonParse(o.text).val,
                      extra |-> <<>>])
  ELSE Response(200, [tag |-> "rawtext", val |-> o.text, extra |-> <<>>])

\* the 15-second timer of analyzeWithGemini fires: controller.abort()
Timeout004 ==
  /\ variant \in Single
  /\ pc[1] = "llm"
  /\ llm[1].timer = "armed"
  /\ llm' = [llm EXCEPT ![1] = [st |-> "aborted", timer |-> "fired"]]
  /\ out' = [out EXCEPT ![1] = Append(@, Response(200, FallbackBody))]
  /\ pc' = [pc EXCEPT ![1] = "done"]
  /\ UNCHANGED <<variant, relay, only006, onlyRest, inp, issued, prompt, msgs, fetch>>

\* the fetch of analyzeWithGemini settles: clearTimeout(timeoutId)
LlmReply004(o) ==
  /\ variant \in Single
  /\ pc[1] = "llm"
  /\ llm' = [llm EXCEPT ![1] = [st |-> LlmEnd(o, JsonParse(o.text).ok),
                                 timer |-> "cleared"]]
  /\ out' = [out EXCEPT ![1] = Append(@, Reply004(o))]
  /\ pc' = [pc EXCEPT ![1] = "done"]
  /\ UNCHANGED <<variant, relay, only006, onlyRest, inp, issued, prompt, msgs, fetch>>

Next004 ==
  \/ \E b \in Bodies004 : GetAssets004(b)
  \/ \E b \in Bodies004 : Analyze004(b)
  \/ Open004
  \/ \E m \in MessageKinds : AssetsMessage004(m)
  \/ AssetsError004
  \/ \E code \in CloseCodes : Close004(code)
  \/ \E m \in MessageKinds, n \in CandleCounts : OhlcMessage004(m, n)
  \/ OhlcError004
  \/ Timeout004
  \/ \E o \in LlmOutcomes : LlmReply004(o)

\* ==== part_005: POST /api/predict =======================================
Bodies005 == { [path |-> "predict"] }

Predict005(body) ==
  /\ variant = "p005p"
  /\ pc[1] = "idle"
  /\ inp' = [inp EXCEPT ![1] = body @@ NoInput]
  /\ llm' = [llm EXCEPT ![1].st = "pending"]
  /\ issued' = [issued EXCEPT ![1] = Append(@, <<"llm">>)]
  /\ pc' = [pc EXCEPT ![1] = "llm"]
  /\ UNCHANGED <<variant, relay, only006, only1, out, prompt, msgs>>

\* res.json({ prediction: text }): the text itself, not parsed
Reply005(o) ==
  IF o.kind # "text" THEN Err(500)
  ELSE Response(200, [tag |-> "prediction", val |-> o.text, extra |-> <<>>])

\* apiRes.on('end')
PredictEnd005(o) ==
  /\ variant = "p005p"
  /\ pc[1] = "llm"
  /\ o.kind # "neterr"
  /\ llm' = [llm EXCEPT ![1].st = LlmEnd(o, TRUE)]
  /\ out' = [out EXCEPT ![1] = Append(@, Reply005(o))]
  /\ pc' = [pc EXCEPT ![1] = "done"]
  /\ UNCHANGED <<variant, relay, only006, only1, inp, issued, prompt, msgs>>

\* apiReq.on('error')
PredictError005 ==
  /\ variant = "p005p"
  /\ pc[1] = "llm"
  /\ llm' = [llm EXCEPT ![1].st = "failed"]
  /\ out' = [out EXCEPT ![1] = Append(@, Err(500))]
  /\ pc' = [pc EXCEPT ![1] = "done"]
  /\ UNCHANGED <<variant, relay, only006, only1, inp, issued, prompt, msgs>>

Next005 ==
  \/ \E b \in Bodies005 : Predict005(b)
  \/ PredictError005
  \/ \E o \in LlmOutcomes : PredictEnd005(o)

\* ==== server.js (first server) and part_001: football analysis ===========
\* POST /api/analyze awaits its football-API calls one after the other.
Football == {"sjs1", "p001"}
FootballResults == {"fail", "empty", "data"}

\* the calls of the handler as <<action, parameter>>, in program order
Calls_sjs1 ==
  << <<"get_events", "match_id">>, <<"get_standings", "league_id">>,
     <<"get_events", "league_id">> >>
Calls001 ==
  << <<"get_events", "match_name">>, <<"get_standings", "league_id">>,
     <<"get_events", "home">>, <<"get_events", "away">>,
     <<"get_H2H", "home-away">>, <<"get_players", "home">>,
     <<"get_players", "away">>, <<"get_topscorers", "league_id">>,
     <<"get_odds", "match_id">> >>
Calls == IF variant = "sjs1" THEN Calls_sjs1 ELSE Calls001

\* fetchFootballData of server.js throws on a failure,
\* fetchFootballData of part_001 catches it and returns []
fetchFootballData_sjs1(res) == IF res = "fail" THEN "throw" ELSE res
\* variant: the failure is thrown to the caller
fetchFootballData001_Throws(res) == IF res = "fail" THEN "throw" ELSE res
fetchFootballData001(res) == IF res = "fail" THEN "empty" ELSE res
fetchFootballData(res) ==
  IF variant = "sjs1" THEN fetchFootballData_sjs1(res)
  ELSE fetchFootballData001(res)

\* the status the handler answers with after call number n returned got,
\* or 0 when it goes on
StatusAfter_sjs1(n, got) ==
  IF got = "throw" THEN 500
  ELSE IF n \in {1, 2} /\ got = "empty" THEN 404
  ELSE 0
StatusAfter001(n, got) ==
  IF got = "throw" THEN 500
  ELSE IF n = 1 /\ got = "empty" THEN 404
  ELSE 0
StatusAfter(n, got) ==
  IF variant = "sjs1" THEN StatusAfter_sjs1(n, got) ELSE StatusAfter001(n, got)

AnalyzeFootball(body) ==
  /\ variant \in Football
  /\ pc[1] = "idle"
  /\ inp' = [inp EXCEPT ![1] = body @@ NoInput]
  /\ foot' = [step |-> 1, failed |-> FALSE]
  /\ issued' = [issued EXCEPT ![1] = Append(@, Calls[1])]
  /\ pc' = [pc EXCEPT ![1] = "fetch"]
  /\ UNCHANGED <<variant, relay, only006, fetch, out, llm, prompt, msgs,
                 availableAssets, refreshes>>

\* variant: a call that failed is issued once more
FootballReturns_Retry(res) ==
  /\ variant \in Football
  /\ pc[1] = "fetch"
  /\ LET n      == foot.step
         status == StatusAfter(n, fetchFootballData(res))
     IN  IF res = "fail" /\ ~foot.failed
         THEN /\ foot' = [foot EXCEPT !.failed = TRUE]
              /\ issued' = [issued EXCEPT ![1] = Append(@, Calls[n])]
              /\ UNCHANGED <<pc, out, llm>>
         ELSE IF status # 0
         THEN /\ out' = [out EXCEPT ![1] = Append(@, Err(status))]
              /\ pc' = [pc EXCEPT ![1] = "done"]
              /\ foot' = [foot EXCEPT !.failed = @ \/ res = "fail"]
              /\ UNCHANGED <<llm, issued>>
         ELSE IF n < Len(Calls)
         THEN /\ foot' = [step |-> n + 1, failed |-> foot.failed \/ res = "fail"]
              /\ issued' = [issued EXCEPT ![1] = Append(@, Calls[n + 1])]
              /\ UNCHANGED <<pc, out, llm>>
         ELSE /\ foot' = [foot EXCEPT !.failed = @ \/ res = "fail"]
              /\ llm' = [llm EXCEPT ![1].st = "pending"]
              /\ issued' = [issued EXCEPT ![1] = Append(@, <<"llm">>)]
              /\ pc' = [pc EXCEPT ![1] = "llm"]
              /\ out' = out
  /\ UNCHANGED <<variant, relay, only006, fetch, inp, prompt, msgs,
                 availableAssets, refreshes>>

\* the awaited fetchFootballData call returns
FootballReturns(res) ==
  /\ variant \in Football
  /\ pc[1] = "fetch"
  /\ LET n      == foot.step
         status == StatusAfter(n, fetchFootballData(res))
     IN  IF status # 0
         THEN /\ out' = [out EXCEPT ![1] = Append(@, Err(status))]
              /\ pc' = [pc EXCEPT ![1] = "done"]
              /\ foot' = [foot EXCEPT !.failed = @ \/ res = "fail"]
              /\ UNCHANGED <<llm, issued>>
         ELSE IF n < Len(Calls)
         THEN /\ foot' = [step |-> n + 1, failed |-> foot.failed \/ res = "fail"]
              /\ issued' = [issued EXCEPT ![1] = Append(@, Calls[n + 1])]
              /\ UNCHANGED <<pc, out, llm>>
         ELSE /\ foot' = [foot EXCEPT !.failed = @ \/ res = "fail"]
              /\ llm' = [llm EXCEPT ![1].st = "pending"]
              /\ issued' = [issued EXCEPT ![1] = Append(@, <<"llm">>)]
              /\ pc' = [pc EXCEPT ![1] = "llm"]
              /\ out' = out
  /\ UNCHANGED <<variant, relay, only006, fetch, inp, prompt, msgs,
                 availableAssets, refreshes>>

\* variant: the text between the first { and the last } is parsed
ReplyFootball_Sliced(o) ==
  IF o.kind # "text" THEN Err(500)
  ELSE IF BraceSlice(o.text).ok /\ JsonParse(BraceSlice(o.text).text).ok
  THEN Relay(JsonParse(BraceSlice(o.text).text).val)
  ELSE Err(500)

\* res.json(JSON.parse(jsonString))
ReplyFootball(o) ==
  IF o.kind # "text" THEN Err(500)
  ELSE IF JsonParse(o.text).ok THEN Relay(JsonParse(o.text).val)
  ELSE Err(500)

LlmReplyFootball(o) ==
  /\ variant \in Football
  /\ pc[1] = "llm"
  /\ llm' = [llm EXCEPT ![1].st = LlmEnd(o, JsonParse(o.text).ok)]
  /\ out' = [out EXCEPT ![1] = Append(@, ReplyFootball(o))]
  /\ pc' = [pc EXCEPT ![1] = "done"]
  /\ UNCHANGED <<variant, relay, only006, fetch, inp, issued, prompt, msgs, foot,
                 availableAssets, refreshes>>

NextFootball ==
  \/ \E b \in {[path |-> "analyze"]} : AnalyzeFootball(b)
  \/ \E res \in FootballResults : FootballReturns(res)
  \/ \E o \in LlmOutcomes : LlmReplyFootball(o)

\* ==== part_002: asset list and POST /api/analyze-asset ====================
\* what api.activeSymbols can come back with
Symbols ==
  { <<[symbol |-> "frxEURUSD", market |-> "forex",
       submarket |-> "major_pairs"],
      [symbol |-> "R_100", market |-> "synthetic_index",
       submarket |-> "random_index"]>>,
    <<[symbol |-> "frxGBPUSD", market |-> "forex",
       submarket |-> "major_pairs"]>>,
    <<[symbol |-> "frxAUDCAD", market |-> "forex",
       submarket |-> "minor_pairs"]>> }
SymbolResults ==
  { [kind |-> k, symbols |-> <<>>] : k \in {"error", "throw"} }
    \cup { [kind |-> "ok", symbols |-> l] : l \in Symbols }

IsMajorPair(x) == x.market = "forex" /\ x.submarket = "major_pairs"

\* fetchAssets, at server start and then every hour
fetchAssets(result) ==
  /\ variant = "p002"
  /\ refreshes < MaxRefresh
  /\ refreshes' = refreshes + 1
  /\ availableAssets' =
       IF result.kind # "ok" THEN availableAssets
       ELSE LET kept == SelectSeq(result.symbols, IsMajorPair)
            IN  [i \in 1..Len(kept) |-> [symbol |-> kept[i].symbol]]
  /\ UNCHANGED <<variant, relay, only006, fetch, pc, inp, out, llm, issued, prompt,
                 msgs, foot>>

\* variant: the list is sent whether or not it is empty
GetAssets002_Always(r, body) ==
  /\ variant = "p002"
  /\ Arrives(r)
  /\ body.path = "assets"
  /\ inp' = [inp EXCEPT ![r] = body @@ NoInput]
  /\ out' = [out EXCEPT ![r] = Append(@,
       Response(200, [tag |-> "assets", val |-> availableAssets,
                      extra |-> <<>>]))]
  /\ pc' = [pc EXCEPT ![r] = "done"]
  /\ UNCHANGED <<variant, relay, only006, fetch, llm, issued, prompt, msgs, foot,
                 availableAssets, refreshes>>

\* app.get('/api/assets')
GetAssets002(r, body) ==
  /\ variant = "p002"
  /\ Arrives(r)
  /\ body.path = "assets"
  /\ inp' = [inp EXCEPT ![r] = body @@ NoInput]
  /\ out' = [out EXCEPT ![r] = Append(@,
       IF Len(availableAssets) > 0
       THEN Response(200, [tag |-> "assets", val |-> availableAssets,
                           extra |-> <<>>])
       ELSE Err(503))]
  /\ pc' = [pc EXCEPT ![r] = "done"]
  /\ UNCHANGED <<variant, relay, only006, fetch, llm, issued, prompt, msgs, foot,
                 availableAssets, refreshes>>

\* app.post('/api/analyze-asset')
AnalyzeAsset002(r, body) ==
  /\ variant = "p002"
  /\ Arrives(r)
  /\ body.path = "analyze-asset"
  /\ inp' = [inp EXCEPT ![r] = body @@ NoInput]
  /\ llm' = [llm EXCEPT ![r].st = "pending"]
  /\ issued' = [issued EXCEPT ![r] = Append(@, <<"llm">>)]
  /\ pc' = [pc EXCEPT ![r] = "llm"]
  /\ UNCHANGED <<variant, relay, only006, fetch, out, prompt, msgs, foot,
                 availableAssets, refreshes>>

NotFence(x) == x \notin {"J", "F"}
\* text.replace(/```json/g, '').replace(/```/g, '').trim()
cleanedText(t) == Trim(SelectSeq(t, NotFence))

Reply002(o) ==
  IF o.kind # "text" THEN Err(500)
  ELSE IF JsonParse(cleanedText(o.text)).ok
  THEN Relay(JsonParse(cleanedText(o.text)).val)
  ELSE Err(500)

LlmReply002(r, o) ==
  /\ variant = "p002"
  /\ pc[r] = "llm"
  /\ llm' = [llm EXCEPT ![r].st = LlmEnd(o, JsonParse(cleanedText(o.text)).ok)]
  /\ out' = [out EXCEPT ![r] = Append(@, Reply002(o))]
  /\ pc' = [pc EXCEPT ![r] = "done"]
  /\ UNCHANGED <<variant, relay, only006, fetch, inp, issued, prompt, msgs, foot,
                 availableAssets, refreshes>>

Bodies002 == { [path |-> "assets"], [path |-> "analyze-asset"] }

Next002 ==
  \/ \E res \in SymbolResults : fetchAssets(res)
  \/ \E r \in Active, b \in Bodies002 : GetAssets002(r, b)
  \/ \E r \in Active, b \in Bodies002 : AnalyzeAsset002(r, b)
  \/ \E r \in Active, o \in LlmOutcomes : LlmReply002(r, o)

Next == Next006 \/ Next003 \/ Next004 \/ Next005 \/ NextFootball \/ Next002

Spec == Init /\ [][Next]_vars


\* ==== properties ==========================================================
FirstStatus(r) == out[r][1].status
Answered(r) == out[r] # <<>>
CalledLlm(r) == llm[r].st # "none"
Sent200(r) == \E i \in 1..Len(out[r]) : out[r][i].status = 200

\* C1: under every interleaving of two requests to /analyze of part_006,
\* the prompt of a request is built only from candles that were delivered
\* for that request's own asset and timeframe.
C1_OwnCandlesOnly ==
  variant = "p006" =>
    \A r \in Req : CalledLlm(r) =>
      \A s \in prompt[r] :
        /\ inp[s].asset = inp[r].asset
        /\ inp[s].timeframe = inp[r].timeframe

\* a failure during request r: an upstream fetch was rejected or failed,
\* the LLM call failed or was aborted, or its reply could not be parsed
UpstreamFailed(r) ==
  r = 1 /\ (foot.failed \/ \E k \in Slot : fetch[k].prom = "rejected")
LlmFailed(r) == llm[r].st \in {"failed", "garbled", "aborted"}

\* C2 as stated: whenever an upstream fetch fails, the LLM call fails or the
\* LLM reply cannot be parsed, the request is answered with HTTP 500.
C2_AlwaysStatus500 ==
  \A r \in Req :
    Answered(r) /\ (UpstreamFailed(r) \/ LlmFailed(r)) => FirstStatus(r) = 500

\* C2: a failure that reaches the try/catch of the handler is answered with
\* HTTP 500: a failed or unparsable LLM reply outside part_004/part_008, a
\* rejected price or history fetch, every timeframe fetch rejected, a
\* football call that throws (server.js).  part_004/part_008 answer a failed,
\* aborted or unparsable LLM call with 200 and a fallback object, part_001
\* answers a failed match search with 404, and part_003/part_005 go on
\* while one timeframe fetch succeeded.
C2_CaughtFailures ==
  \A r \in Req : Answered(r) =>
    /\ variant \notin Single /\ llm[r].st \in {"failed", "garbled"}
         => FirstStatus(r) = 500
    /\ variant \in Single /\ LlmFailed(r)
         => /\ FirstStatus(r) = 200
            /\ out[r][1].body.tag \in {"fallback", "rawtext"}
    /\ variant \in MultiTf \cup Single /\ fetch[0].prom = "rejected"
         => FirstStatus(r) = 500
    /\ variant \in MultiTf /\ OhlcSlots # {}
         /\ (\A k \in OhlcSlots : fetch[k].prom = "rejected")
         => FirstStatus(r) = 500
    /\ variant \in MultiTf /\ ~CalledLlm(r) => FirstStatus(r) = 500
    /\ variant = "sjs1" /\ foot.failed => FirstStatus(r) = 500
    /\ variant = "p001" /\ foot.failed /\ foot.step = 1
         => FirstStatus(r) = 404

C2_Witness ==
  /\ variant = "p003"
  /\ llm[1].st = "garbled"
  /\ Answered(1) /\ FirstStatus(1) = 500
  /\ \E k \in OhlcSlots : fetch[k].prom = "rejected"

\* C3: every request handler answers for every sequence of WebSocket
\* events: once nothing more can happen, every request that was accepted
\* has been answered.
C3_AlwaysAnswers ==
  (~ENABLED Next) => \A r \in Req : pc[r] # "idle" => Answered(r)

\* C4 as stated: if the OHLC fetch of any requested timeframe fails, the
\* request is not answered with an analysis built from the others.
C4_NoPartialAnalysis ==
  variant \in MultiTf /\ (\E k \in OhlcSlots : fetch[k].prom = "rejected")
    => ~Sent200(1)

\* C4: the analysis of part_003/part_005 is built from the timeframes whose
\* fetch succeeded with candles, and only from those; a request whose
\* timeframe fetches all failed is answered 500 without an LLM call.
C4_AnalysisFromWorked ==
  variant \in MultiTf =>
    /\ CalledLlm(1) =>
         /\ prompt[1] # <<>>
         /\ \A i \in 1..Len(prompt[1]) : \E k \in OhlcSlots :
              /\ Tfs[k] = prompt[1][i]
              /\ fetch[k].prom = "resolved"
              /\ fetch[k].data > 0
    /\ Sent200(1) => llm[1].st = "replied"
    /\ pc[1] = "done" /\ OhlcSlots # {}
         /\ (\A k \in OhlcSlots : fetch[k].prom = "rejected")
         => ~CalledLlm(1) /\ FirstStatus(1) = 500

C4_Witness ==
  /\ variant = "p003"
  /\ fetch[1].prom = "rejected"
  /\ fetch[2].prom = "resolved"
  /\ prompt[1] = <<"1m">>
  /\ Sent200(1)

C6_RelayedVerbatim ==
  relay.resp.status = 200 =>
    /\ relay.resp.body.tag = "json"
    /\ JsonParse(relay.o.text).ok
    /\ relay.resp.body.val = JsonParse(relay.o.text).val

\* C6: server.js and part_001 answer with the value parsed from the
\* unmodified reply text.  part_002 parses the text with every ``` fence
\* removed, part_006 the text between the first { and the last },
\* part_003/part_005 wrap the parsed value with the request's fields,
\* part_004/part_008 wrap it as `analysis` or send a fallback object, and
\* /api/predict of part_005 sends the text itself as `prediction`.
C6_RelayPerVariant ==
  LET text == relay.o.text
      body == relay.resp.body
  IN  relay.resp.status = 200 =>
        /\ variant \in Football =>
             /\ body.tag = "json"
             /\ JsonParse(text).ok
             /\ body.val = JsonParse(text).val
        /\ variant = "p002" =>
             /\ body.tag = "json"
             /\ \A i \in 1..Len(body.val) : body.val[i] \notin {"F", "J"}
             /\ body.val = SelectSeq(text, LAMBDA x : x \in {"A", "S"})
        /\ variant = "p006" =>
             /\ body.tag = "json"
             /\ \E i, j \in 1..Len(text) :
                  /\ text[i] = "L" /\ text[j] = "R" /\ i < j
                  /\ \A n \in 1..Len(text) :
                       (text[n] = "L" => i <= n) /\ (text[n] = "R" => n <= j)
                  /\ body.val = SelectSeq(SubSeq(text, i + 1, j - 1), NotW)
        /\ variant \in MultiTf =>
             /\ body.tag = "analysis"
             /\ JsonParse(text).ok
             /\ body.val = JsonParse(text).val
        /\ variant \in Single =>
             /\ body.tag = "analysis" =>
                  JsonParse(text).ok /\ body.val = JsonParse(text).val
             /\ body.tag = "rawtext" => body.val = text /\ ~JsonParse(text).ok
             /\ body.tag \in {"analysis", "rawtext", "fallback"}
        /\ variant = "p005p" => body.tag = "prediction" /\ body.val = text

C6_Witness ==
  /\ variant = "p002"
  /\ relay.o.text = <<"L", "F", "R">>
  /\ relay.resp.status = 200
  /\ relay.resp.body.val = <<>>

\* the upstream data fetches of request r have all completed
FetchesDone(r) ==
  CASE variant = "p006"     -> sk[r].hist
    [] variant \in MultiTf  ->
         /\ fetch[0].prom = "resolved"
         /\ \A k \in OhlcSlots : fetch[k].prom \in {"resolved", "rejected"}
    [] variant \in Single   -> fetch[0].prom = "resolved"
    [] variant \in Football -> foot.step = Len(Calls)
    [] OTHER                -> TRUE
\* the LLM call is the last call request r issued
LlmIsLast(r) ==
  \A i \in 1..Len(issued[r]) : issued[r][i] = <<"llm">> => i = Len(issued[r])

\* C7 as stated: in every request that calls the LLM, all upstream fetches
\* have completed before the LLM call is issued, none is issued after it,
\* and the success response is sent only after the LLM reply was received.
C7_PipelineOrder ==
  \A r \in Req : CalledLlm(r) =>
    /\ FetchesDone(r)
    /\ LlmIsLast(r)
    /\ Sent200(r) => llm[r].st \in {"replied", "garbled"}

\* C7: no upstream fetch is issued after the LLM call; outside part_006
\* all upstream fetches of the request have settled before the LLM call is
\* issued, while part_006 issues it when its 5-second wait ends with
\* candles in liveCandles, whichever socket delivered them; a 200 response
\* carrying a parsed analysis is sent only after the LLM reply, and
\* part_004/part_008 also answer 200 with a fallback object when the LLM
\* call fails or is aborted.
C7_OrderPerVariant ==
  \A r \in Req : CalledLlm(r) =>
    /\ variant # "p006" => FetchesDone(r)
    /\ variant = "p006" => prompt[r] # {}
    /\ LlmIsLast(r)
    /\ Sent200(r) /\ variant \notin Single => llm[r].st = "replied"
    /\ Sent200(r) /\ variant \in Single =>
         \/ llm[r].st = "replied" /\ out[r][1].body.tag = "analysis"
         \/ llm[r].st = "garbled" /\ out[r][1].body.tag \in {"rawtext", "fallback"}
         \/ llm[r].st \in {"failed", "aborted"} /\ out[r][1].body.tag = "fallback"

C7_Witness ==
  /\ variant = "p003"
  /\ Len(Tfs) = 2
  /\ llm[1].st = "replied"
  /\ Sent200(1)
  /\ Len(issued[1]) = 4

\* C8 as stated: the server never aborts, closes early or cancels an
\* upstream call or LLM call it has issued.
C8_NeverAborts ==
  /\ \A r \in Req : llm[r].st # "aborted"
  /\ \A r \in Req : ~(sk[r].st \in {"closing", "aborted"} /\ ~sk[r].hist)
  /\ \A k \in Slot :
       ~(fetch[k].st \in {"closing", "aborted"} /\ fetch[k].prom = "pending")

\* C8: only two things cancel a call in flight: the 15-second timer of
\* analyzeWithGemini (part_004/part_008) aborts the LLM call, and
\* connectToDeriv of part_006 closes the socket of the previous request
\* when a later request arrives.  A fetch socket of the other servers is
\* closed by the server only after its promise has settled.
C8_AbortsOnlyByTimerOrReconnect ==
  /\ \A r \in Req :
       /\ llm[r].st = "aborted" => variant \in Single /\ llm[r].timer = "fired"
       /\ llm[r].timer = "fired" => llm[r].st = "aborted"
       /\ sk[r].st \in {"closing", "aborted"} => variant = "p006" /\ ws > r
  /\ \A k \in Slot :
       fetch[k].st \in {"closing", "aborted"} => fetch[k].prom # "pending"

C8_Witness ==
  /\ variant \in Single
  /\ llm[1].st = "aborted"
  /\ Answered(1)
  /\ fetch[0].st = "closing"

\* C9: within one request no call is issued again: the calls a request has
\* issued (upstream calls and the LLM call, with their parameters) are
\* pairwise different, also after one of them failed.
C9_NoRetries ==
  \A r \in Req : \A i, j \in 1..Len(issued[r]) :
    i # j => issued[r][i] # issued[r][j]

C9_Witness ==
  /\ variant = "p001"
  /\ foot.failed
  /\ llm[1].st = "failed"
  /\ pc[1] = "done"
  /\ Len(issued[1]) = Len(Calls001) + 1

\* C10: GET /assets of part_004/part_008 and POST /api/predict of part_005
\* send at most one HTTP response per request.
C10_OneResponse ==
  variant \in Single \cup {"p005p"} => \A r \in Req : Len(out[r]) <= 1

\* C11: after connectToDeriv has returned, liveCandles only ever holds
\* candles delivered by the socket that this call opened: a message that
\* arrives on the socket opened before never changes liveCandles.
C11_OnlyCurrentSocket ==
  variant = "p006" =>
    \A i \in 1..Len(liveCandles) : liveCandles[i].src = ws

C13_NoDuplicateEpochs ==
  variant = "p006" =>
    \A i, j \in 1..Len(liveCandles) :
      i # j => liveCandles[i].epoch # liveCandles[j].epoch

\* the requested timeframes whose OHLC fetch resolved with at least one
\* candle, in request order
ResolvedTfs ==
  SelectSeq(Tfs, LAMBDA tf : \E k \in OhlcSlots :
                   /\ Tfs[k] = tf
                   /\ fetch[k].prom = "resolved"
                   /\ fetch[k].data > 0)

\* C14: in POST /analyze of part_003 the `timeframes` field of a success
\* response is exactly the sub-list of the requested timeframes whose OHLC
\* fetch resolved with at least one candle, in request order, and the
\* prompt holds candle data for exactly those timeframes.
C14_TimeframesThatWorked ==
  variant = "p003" =>
    /\ CalledLlm(1) => prompt[1] = ResolvedTfs
    /\ \A i \in 1..Len(out[1]) :
         out[1][i].status = 200 => out[1][i].body.extra = ResolvedTfs

C14_Witness ==
  /\ variant = "p003"
  /\ Tfs = <<"5m", "1m">>
  /\ fetch[2].prom = "rejected"
  /\ Answered(1) /\ FirstStatus(1) = 200
  /\ out[1][1].body.extra = <<"5m">>
  /\ prompt[1] = <<"5m">>

\* C15: in POST /analyze of part_003, when the OHLC fetch of every
\* requested timeframe has been rejected, the request has been answered
\* with HTTP 500 and the LLM was not called for it.
C15_AllFailedIs500 ==
  variant = "p003" /\ OhlcSlots # {}
    /\ (\A k \in OhlcSlots : fetch[k].prom = "rejected")
    => /\ ~CalledLlm(1)
       /\ <<"llm">> \notin { issued[1][i] : i \in 1..Len(issued[1]) }
       /\ Len(out[1]) = 1
       /\ FirstStatus(1) = 500

\* one fetch was rejected by a message, the other by the socket
C15_Witness ==
  /\ variant = "p003"
  /\ Len(Tfs) = 2
  /\ fetch[0].prom = "resolved"
  /\ fetch[1].prom = "rejected" /\ fetch[1].st = "closing"
  /\ fetch[2].prom = "rejected" /\ fetch[2].st \in {"errored", "closed"}
  /\ pc[1] = "done"

\* C16: in POST /analyze of part_003 the current price is fetched first:
\* no OHLC socket is opened before fetchCurrentPrice has resolved, and when
\* fetchCurrentPrice rejects the request is answered with HTTP 500 and
\* neither an OHLC fetch nor the LLM call is issued.
C16_PriceFirst ==
  variant = "p003" =>
    /\ (\E k \in Slot \ {0} : fetch[k].st # "none")
         => fetch[0].prom = "resolved"
    /\ fetch[0].prom = "rejected" =>
         /\ Len(out[1]) = 1
         /\ FirstStatus(1) = 500
         /\ Len(issued[1]) = 1 /\ issued[1][1][1] = "ticks"
         /\ ~CalledLlm(1)
         /\ \A k \in Slot \ {0} : fetch[k] = NoFetch

\* the price socket closed abnormally before a tick arrived
C16_Witness ==
  /\ variant = "p003"
  /\ fetch[0].prom = "rejected"
  /\ fetch[0].st = "closed"
  /\ msgs = 0
  /\ Answered(1)

\* C17: fetchFootballData of part_001 returns an empty array on any error
\* and never throws; so a failed fixture search is answered with HTTP 404,
\* and a failure of a later football call does not stop the LLM call: the
\* request is never answered before the LLM call except with that 404.
C17_EmptyOnError ==
  /\ \A res \in FootballResults : fetchFootballData001(res) # "throw"
  /\ fetchFootballData001("fail") = "empty"
  /\ variant = "p001" =>
       /\ foot.failed /\ foot.step = 1 =>
            Len(out[1]) = 1 /\ FirstStatus(1) = 404 /\ ~CalledLlm(1)
       /\ Answered(1) /\ ~CalledLlm(1) =>
            foot.step = 1 /\ FirstStatus(1) = 404
       /\ foot.failed /\ foot.step > 1 /\ pc[1] = "done" => CalledLlm(1)

\* a later call failed and the analysis was still delivered
C17_Witness ==
  /\ variant = "p001"
  /\ foot.failed
  /\ foot.step = Len(Calls001)
  /\ llm[1].st = "replied"
  /\ Answered(1) /\ FirstStatus(1) = 200

\* the value sent as `analysis` is an object with an `analysis` field
HasAnalysisField(body) ==
  \/ body.tag \in {"fallback", "rawtext"}
  \/ body.tag = "analysis" /\ \E i \in 1..Len(body.val) : body.val[i] = "A"

\* C18: analyzeWithGemini of part_004/part_008 never throws and always
\* returns an object with an `analysis` field: POST /analyze is answered
\* 200 once the LLM call has ended, with a fallback object when the call
\* was aborted by the timer, failed, or replied without text or with text
\* that is not JSON; and the timer is not armed once the function returned.
C18_AlwaysAnalysisObject ==
  variant \in Single /\ CalledLlm(1) /\ llm[1].st # "pending" =>
    /\ Len(out[1]) = 1
    /\ FirstStatus(1) = 200
    /\ HasAnalysisField(out[1][1].body)
    /\ LlmFailed(1) => out[1][1].body.tag \in {"fallback", "rawtext"}
    /\ llm[1].timer \in {"cleared", "fired"}

\* ==== the handlers' treatment of the LLM outcome, for every outcome =======
RelayTexts ==
  Replies \cup
  { <<"L", "F", "R">>,
    <<"L", "R">>,
    <<"F", "L", "S", "R", "F">>,
    <<"L", "S", "W", "S", "R">>,
    <<"W">> }
RelayOutcomes ==
  { [kind |-> k, text |-> <<>>] : k \in {"neterr", "notok", "nocand"} }
    \cup { [kind |-> "text", text |-> t] : t \in RelayTexts }

\* the response the running variant sends when its LLM call ends with o
ReplyOf(o) ==
  CASE variant = "p006"    -> Reply006(o)
    [] variant \in MultiTf -> Reply003(o, ReplyTimeframes)
    [] variant \in Single  -> Reply004(o)
    [] variant = "p005p"   -> Reply005(o)
    [] variant \in Football -> ReplyFootball(o)
    [] variant = "p002"    -> Reply002(o)

InitRelay ==
  /\ variant \in Variants
  /\ Start
  /\ \E o \in RelayOutcomes : relay = [o |-> o, resp |-> NoResponse]

Deliver ==
  /\ relay.resp = NoResponse
  /\ relay' = [relay EXCEPT !.resp = ReplyOf(relay.o)]
  /\ UNCHANGED <<variant, pc, inp, out, sk, llm, issued, prompt, globals006,
                 msgs, fetch, foot, availableAssets, refreshes>>

NextRelay == Deliver

SpecRelay == InitRelay /\ [][NextRelay]_vars

====
